---- MODULE Spec2Model ----
(***************************************************************************)
(* Model of the utils_atomics crate: the block based FillQueue             *)
(* (src/src/fill_queue.rs), its ChopIter, and the flags built on it        *)
(* (src/src/flag/mpmc.rs, src/src/flag/mpsc.rs, src/src/locks.rs).         *)
(*                                                                         *)
(* Memory is sequentially consistent.  A block of the heap is a record;    *)
(* block addresses are the integers above the three head markers.  The     *)
(* allocator never hands out an address twice.                             *)
(***************************************************************************)
EXTENDS Integers, Naturals, Sequences, FiniteSets, Bags, TLC

\* ---------------------------------------------------------------- state
\* two queues used by one thread at a time, with the iterators of the last
\* chop, the result of the last call, and the values sa was given
VARIABLES sa, sm, ia, im, obsA, obsM, pendA, expA, gotA, doneA, npush, haltA, haltM
\* one queue shared by threads: the queue and its heap, the threads, the
\* values whose push returned, how often each value was handed out
VARIABLES cq, th, cnpush, pushed, taken, crashed

\* the flags (reference counts, registered wakers), the threads that wait on
\* them, every thread's park token, and whether the run has ended in
\* undefined behaviour
VARIABLES fl, wt, token, fcrashed
\* the once channel: its value cell and reference count, and where its
\* Sender and its Receiver are
VARIABLES ch
\* a TakeCell, an AtomicCell and an AtomicBitBox, each with the calls in
\* progress on it and what the calls returned
VARIABLES tc, ac, bb

seqvars == <<sa, sm, ia, im, obsA, obsM, pendA, expA, gotA, doneA, npush, haltA, haltM>>
convars == <<cq, th, cnpush, pushed, taken, crashed>>
flagvars == <<fl, wt, token, fcrashed>>
chanvars == <<ch>>
cellvars == <<tc, ac, bb>>
vars == <<seqvars, convars, flagvars, chanvars, cellvars>>

\* ---------------------------------------------------------------- bounds
\* block_size of the queues of the model (FillQueue::new_with_block_size)
BlockSize == 2
\* number of push calls made on one queue
MaxPush == 4
\* number of threads that use the shared queue, or wait on the flags
NThreads == 2
\* number of flags
NFlags == 2
\* number of Flag (or Notify) handles one flag (or notifier) has at a time
MaxHandles == 2
\* number of Listener handles of the notifier at a time
MaxListeners == 2
\* number of try_take calls one thread makes on the TakeCell
MaxCalls == 2
\* number of values put into the AtomicCell, the initial one included
MaxPuts == 3
\* BIT_SIZE of the AtomicBitBox of the model: the bits of one word
BitSize == 3
\* the longest AtomicBitBox of the model has MaxWords words
MaxWords == 2
\* the width of usize in the model
UsizeBits == 5

\* ------------------------------------------------------ program constants
EMPTY == 0
LOCKED == 1
ALLOCATING == 2
FLAG_FALSE == 0
FLAG_TRUE == 1

\* every push allocates at most one block
MaxBlocks == MaxPush + 1
Blocks == (ALLOCATING + 1)..(ALLOCATING + MaxBlocks)
Slots == 0..(BlockSize - 1)
Values == 1..MaxPush
\* the content of a MaybeUninit slot nothing was written to
NoVal == 0
\* what a read past the end of a block finds: no pushed value
Garbage == MaxPush + 1

\* ----------------------------------------------------------------- heap
\* Node<T>: init flag and value; `rd` counts how often the value was moved out
Node == [init |-> FLAG_FALSE, v |-> NoVal, rd |-> 0]

\* Block<T>: init, prev, idx, nodes; `st` is the allocation state of the memory
Block == [st |-> "unalloc", init |-> FLAG_FALSE, prev |-> EMPTY, idx |-> 0,
          nodes |-> [i \in Slots |-> Node]]

\* FillQueue::new_with_block_size: head pointer `block` is null.  `idx` is the
\* field chop_mut and drop read as self.idx; no constructor sets it.
FillQueueNew(idx0) ==
    [block |-> EMPTY, idx |-> idx0, heap |-> [b \in Blocks |-> Block]]

\* the values the queue level idx may hold at construction
IdxInit == (-1)..BlockSize

FreeBlocks(q) == {b \in Blocks : q.heap[b].st = "unalloc"}

\* the allocator: lowest address not handed out yet
NewBlockAddr(q) == CHOOSE b \in FreeBlocks(q) : \A c \in FreeBlocks(q) : b <= c

\* a counter above BlockSize behaves the same whatever its value: saturate
IdxCap == BlockSize + 1
Bump(i) == IF i >= IdxCap THEN IdxCap ELSE i + 1

\* ------------------------------------------------- FillQueue::try_push
\* the inner `match block_ptr` of try_push
Dispatch(bp) ==
    CASE bp = EMPTY -> "cas"
      [] bp = LOCKED -> "spinL"
      [] bp = ALLOCATING -> "spinA"
      [] OTHER -> "next"

\* local state of a try_push call at its entry; `sp` is the parity of the
\* iterations its spin loops have made
PushLocal(v) == [pc |-> "load", v |-> v, bp |-> EMPTY, nb |-> EMPTY, ni |-> 0, sp |-> 0]

PushFinal == {"ok", "err", "panic", "crash"}

\* Block::next_node on the block at l.bp: fetch_add, then the bounds test
NextNode(q, l, uaf) ==
    LET b == l.bp
        idx == q.heap[b].idx
        q2 == [q EXCEPT !.heap[b].idx = Bump(idx)]
    IN  IF q.heap[b].st # "live" /\ uaf = "crash"
        THEN [q |-> q, l |-> [l EXCEPT !.pc = "crash"]]
        ELSE IF idx > BlockSize
        THEN [q |-> q2, l |-> [l EXCEPT !.pc = "load"]]
        ELSE IF idx = BlockSize
        THEN [q |-> q2, l |-> [l EXCEPT !.pc = "panic"]]
        ELSE [q |-> q2, l |-> [l EXCEPT !.pc = "write", !.nb = b, !.ni = idx]]

\* the block initialisation of allocate_new_block; the block is never stored
\* into the head
InitBlock(q, l) ==
    [q EXCEPT !.heap[l.nb] =
        [st |-> "live", init |-> FLAG_TRUE, prev |-> l.bp, idx |-> 1,
         nodes |-> [i \in Slots |-> Node]]]

\* one step of try_push (with allocate_new_block inlined).  allocOk: the
\* allocator's answer; uaf: what an access to freed memory does.
TryPushStep(q, l, allocOk, uaf) ==
    CASE l.pc = "load" ->
            [q |-> q, l |-> [l EXCEPT !.bp = q.block, !.pc = Dispatch(q.block)]]
      [] l.pc = "cas" ->
            IF q.block = l.bp
            THEN [q |-> [q EXCEPT !.block = ALLOCATING], l |-> [l EXCEPT !.pc = "alloc"]]
            ELSE [q |-> q, l |-> [l EXCEPT !.pc = "load"]]
      [] l.pc = "alloc" ->
            IF allocOk /\ FreeBlocks(q) # {}
            THEN [q |-> [q EXCEPT !.heap[NewBlockAddr(q)].st = "live"],
                  l |-> [l EXCEPT !.pc = "lock", !.nb = NewBlockAddr(q)]]
            ELSE [q |-> q, l |-> [l EXCEPT !.pc = "fail1"]]
      [] l.pc = "lock" ->
            [q |-> [q EXCEPT !.block = LOCKED], l |-> [l EXCEPT !.pc = "init"]]
      [] l.pc = "init" ->
            [q |-> InitBlock(q, l), l |-> [l EXCEPT !.pc = "write", !.ni = 0]]
      [] l.pc = "fail1" ->
            [q |-> [q EXCEPT !.block = EMPTY], l |-> [l EXCEPT !.pc = "fail2"]]
      [] l.pc = "fail2" ->
            [q |-> [q EXCEPT !.block = EMPTY], l |-> [l EXCEPT !.pc = "err"]]
      [] l.pc = "spinL" ->
            [q |-> q,
             l |-> [l EXCEPT !.bp = q.block, !.sp = 1 - @,
                             !.pc = IF q.block # LOCKED THEN Dispatch(q.block) ELSE "spinL"]]
      [] l.pc = "spinA" ->
            [q |-> q,
             l |-> [l EXCEPT !.bp = q.block, !.sp = 1 - @,
                             !.pc = IF q.block # ALLOCATING THEN Dispatch(q.block) ELSE "spinA"]]
      [] l.pc = "next" -> NextNode(q, l, uaf)
      [] l.pc = "write" ->
            [q |-> [q EXCEPT !.heap[l.nb].nodes[l.ni].v = l.v],
             l |-> [l EXCEPT !.pc = "publish"]]
      [] l.pc = "publish" ->
            [q |-> [q EXCEPT !.heap[l.nb].nodes[l.ni].init = FLAG_TRUE],
             l |-> [l EXCEPT !.pc = "ok"]]
      [] OTHER -> [q |-> q, l |-> l]

\* steps a single call may take before it is declared not to return
Fuel == 4 * (BlockSize + 3)

RECURSIVE RunPush(_, _, _, _)
RunPush(q, l, allocOk, fuel) ==
    IF l.pc \in PushFinal THEN [q |-> q, res |-> l.pc]
    ELSE IF fuel = 0 THEN [q |-> q, res |-> "hang"]
    ELSE LET s == TryPushStep(q, l, allocOk, "stale")
         IN  IF s.q = q /\ s.l = l THEN [q |-> q, res |-> "hang"]
             ELSE RunPush(s.q, s.l, allocOk, fuel - 1)

\* try_push called with no other call in progress
TryPush(q, v, allocOk) == RunPush(q, PushLocal(v), allocOk, Fuel)

\* --------------------------------------------- FillQueue::try_push_mut
\* the EMPTY arm: allocate, install the block as head, take node zero
PushMutAlloc(q, v, allocOk) ==
    IF allocOk /\ FreeBlocks(q) # {}
    THEN LET nb == NewBlockAddr(q)
         IN  [q |-> [q EXCEPT !.block = nb,
                              !.heap[nb] =
                                [st |-> "live", init |-> FLAG_TRUE, prev |-> q.block, idx |-> 1,
                                 nodes |-> [i \in Slots |->
                                    IF i = 0 THEN [init |-> FLAG_TRUE, v |-> v, rd |-> 0]
                                    ELSE Node]]],
              res |-> "ok"]
    ELSE [q |-> [q EXCEPT !.block = EMPTY], res |-> "err"]

TryPushMut(q, v, allocOk) ==
    CASE q.block = EMPTY -> PushMutAlloc(q, v, allocOk)
      [] q.block \in {LOCKED, ALLOCATING} -> [q |-> q, res |-> "panic"]
      [] OTHER ->
            LET b == q.block
                idx == q.heap[b].idx
                q2 == [q EXCEPT !.heap[b].idx = Bump(idx)]
            IN  IF idx > BlockSize
                THEN PushMutAlloc([q2 EXCEPT !.block = EMPTY], v, allocOk)
                ELSE IF idx = BlockSize
                THEN [q |-> q2, res |-> "panic"]
                ELSE [q |-> [q2 EXCEPT !.heap[b].nodes[idx] =
                                    [init |-> FLAG_TRUE, v |-> v, rd |-> 0]],
                      res |-> "ok"]

\* ------------------------------------------------------ chop, chop_mut
\* ChopIter: ptr (EMPTY for None) and the end of range 0..hi
NoIter == [ptr |-> EMPTY, hi |-> 0]

\* FillQueue::chop (allocator api variant)
Chop(q) ==
    LET old == q.block
        q2 == [q EXCEPT !.block = EMPTY]
    IN  CASE old = EMPTY -> [q |-> q2, res |-> "ok", it |-> NoIter]
          [] old \in {LOCKED, ALLOCATING} -> [q |-> q2, res |-> "panic", it |-> NoIter]
          [] OTHER -> [q |-> q2, res |-> "ok", it |-> [ptr |-> old, hi |-> q.heap[old].idx]]

\* FillQueue::chop_mut
ChopMut(q) ==
    LET ptr == q.block
        len == IF ptr = EMPTY THEN 0 ELSE BlockSize
        limit == q.idx
    IN  [q |-> [q EXCEPT !.block = EMPTY, !.idx = 0],
         res |-> "ok",
         it |-> [ptr |-> ptr, hi |-> IF limit < 0 THEN len ELSE limit]]

\* ------------------------------------------------------ ChopIter::next
\* what an access outside live memory does
UB == {"crash", "spin", "garbage"}

\* local state of a next call at its entry
NextLocal == [pc |-> "blk", i |-> 0, out |-> NoVal]

NextFinal == {"some", "none", "crash"}

\* the body of `while let Some(ptr) = self.ptr` up to the node wait
NextBlock(q, it, l, u) ==
    LET b == it.ptr
    IN  IF q.heap[b].st # "live" /\ u = "crash"
        THEN [q |-> q, it |-> it, l |-> [l EXCEPT !.pc = "crash"]]
        ELSE IF q.heap[b].init = FLAG_FALSE
        THEN [q |-> q, it |-> it, l |-> l]
        ELSE IF it.hi > 0
        THEN \* range.next_back(), then nodes.get_unchecked(i)
             LET i == it.hi - 1
                 it2 == [it EXCEPT !.hi = i]
             IN  IF i \in Slots
                 THEN [q |-> q, it |-> it2, l |-> [l EXCEPT !.pc = "node", !.i = i]]
                 ELSE CASE u = "crash" -> [q |-> q, it |-> it2, l |-> [l EXCEPT !.pc = "crash"]]
                        [] u = "spin" -> [q |-> q, it |-> it2, l |-> [l EXCEPT !.pc = "oob", !.i = i]]
                        [] OTHER -> [q |-> q, it |-> it2,
                                     l |-> [l EXCEPT !.pc = "some", !.i = i, !.out = Garbage]]
        ELSE \* the block is used up: move to prev and deallocate the block
             LET prev == q.heap[b].prev
             IN  [q |-> [q EXCEPT !.heap[b].st = "freed"],
                  it |-> [ptr |-> prev, hi |-> IF prev = EMPTY THEN 0 ELSE BlockSize],
                  l |-> l]

\* one step of ChopIter::next
NextStep(q, it, l, u) ==
    CASE l.pc = "blk" /\ it.ptr = EMPTY ->
            [q |-> q, it |-> it, l |-> [l EXCEPT !.pc = "none"]]
      [] l.pc = "blk" /\ it.ptr \in {LOCKED, ALLOCATING} ->
            \* a head marker taken for a block address: no memory there
            [q |-> q, it |-> it, l |-> [l EXCEPT !.pc = IF u = "crash" THEN "crash" ELSE "blk"]]
      [] l.pc = "blk" /\ it.ptr \in Blocks -> NextBlock(q, it, l, u)
      [] l.pc = "node" ->
            IF q.heap[it.ptr].nodes[l.i].init = FLAG_FALSE
            THEN [q |-> q, it |-> it, l |-> l]
            ELSE [q |-> [q EXCEPT !.heap[it.ptr].nodes[l.i].rd = @ + 1],
                  it |-> it,
                  l |-> [l EXCEPT !.pc = "some", !.out = q.heap[it.ptr].nodes[l.i].v]]
      [] OTHER -> [q |-> q, it |-> it, l |-> l]

RECURSIVE RunNext(_, _, _, _, _)
RunNext(q, it, l, u, fuel) ==
    IF l.pc \in NextFinal THEN [q |-> q, it |-> it, res |-> l.pc, out |-> l.out]
    ELSE IF fuel = 0 THEN [q |-> q, it |-> it, res |-> "hang", out |-> NoVal]
    ELSE LET s == NextStep(q, it, l, u)
         IN  IF s.q = q /\ s.it = it /\ s.l = l
             THEN [q |-> q, it |-> it, res |-> "hang", out |-> NoVal]
             ELSE RunNext(s.q, s.it, s.l, u, fuel - 1)

\* ChopIter::next called with no other call in progress
IterNext(q, it, u) == RunNext(q, it, NextLocal, u, Fuel)

\* ChopIter::drop: self.for_each(drop).  `out` collects the dropped values.
RECURSIVE RunDrop(_, _, _, _, _)
RunDrop(q, it, u, out, fuel) ==
    LET n == IterNext(q, it, u)
    IN  IF n.res = "some" /\ fuel > 0
        THEN RunDrop(n.q, n.it, u, Append(out, n.out), fuel - 1)
        ELSE [q |-> n.q, it |-> n.it, out |-> out,
              res |-> IF n.res = "none" THEN "ok" ELSE IF n.res = "some" THEN "hang" ELSE n.res]

IterDrop(q, it, u) == RunDrop(q, it, u, <<>>, Fuel)

\* the blocks a ChopIter owns: its block and the chain of prev links
RECURSIVE ChainOf(_, _, _)
ChainOf(q, b, n) ==
    IF b \notin Blocks \/ n = 0 THEN {} ELSE {b} \cup ChainOf(q, q.heap[b].prev, n - 1)

Reverse(s) == [i \in 1..Len(s) |-> s[Len(s) + 1 - i]]

\* the values ChopIter::next reads from block b downwards from slot hi - 1,
\* then from the whole of each block behind it along prev
RECURSIVE ChainValues(_, _, _, _)
ChainValues(q, b, hi, n) ==
    IF b \notin Blocks \/ n = 0 THEN <<>>
    ELSE LET top == IF hi > BlockSize THEN BlockSize ELSE IF hi < 0 THEN 0 ELSE hi
         IN  [i \in 1..top |-> q.heap[b].nodes[top - i].v]
                 \o ChainValues(q, q.heap[b].prev, BlockSize, n - 1)

\* what a chop of q made now would hand to its iterator
HeadValues(q) ==
    IF q.block \in Blocks
    THEN ChainValues(q, q.block, q.heap[q.block].idx, MaxBlocks)
    ELSE <<>>

\* ----------------------------------------------------------------------
\* Calls made one after the other (no two calls overlap) on two queues that
\* receive the same call sequence: sa through push / chop only, sm through
\* the variant each call picks (push_mut / chop_mut or push / chop).  A
\* panic ends the call, not the program.
\* ----------------------------------------------------------------------
NoObs == [op |-> "none", res |-> "none", out |-> <<>>]
DeadIter == [live |-> FALSE, it |-> NoIter, chain |-> {}]

SeqInitAt(i0) ==
    /\ sa = FillQueueNew(i0) /\ sm = FillQueueNew(i0)
    /\ ia = DeadIter /\ im = DeadIter
    /\ obsA = NoObs /\ obsM = NoObs
    /\ pendA = <<>> /\ expA = <<>> /\ gotA = <<>> /\ doneA = FALSE
    /\ npush = 0 /\ haltA = FALSE /\ haltM = FALSE

\* a call that does not return ends the run it was made in
Stops(r) == r.o.res \in {"hang", "crash"}

\* the call r made in a run, unless the run has ended
After(halt, q, i, o, r) == IF halt THEN [q |-> q, i |-> i, o |-> o] ELSE r

PushOf(q, i, v, allocOk, mut) ==
    LET r == IF mut THEN TryPushMut(q, v, allocOk) ELSE TryPush(q, v, allocOk)
    IN  [q |-> r.q, i |-> i, o |-> [op |-> "push", res |-> r.res, out |-> <<>>]]

\* try_push(v) on sa; try_push_mut(v) or try_push(v) on sm
SeqPush(allocOk, mut) ==
    /\ ~(haltA /\ haltM) /\ npush < MaxPush /\ ~ia.live /\ ~im.live
    /\ LET a == After(haltA, sa, ia, obsA, PushOf(sa, ia, npush + 1, allocOk, FALSE))
           m == After(haltM, sm, im, obsM, PushOf(sm, im, npush + 1, allocOk, mut))
       IN  /\ sa' = a.q /\ sm' = m.q /\ obsA' = a.o /\ obsM' = m.o
           /\ pendA' = IF ~haltA /\ a.o.res = "ok" THEN Append(pendA, npush + 1) ELSE pendA
           /\ haltA' = (haltA \/ Stops(a)) /\ haltM' = (haltM \/ Stops(m))
    /\ npush' = npush + 1
    /\ doneA' = FALSE
    /\ UNCHANGED <<ia, im, expA, gotA, convars, flagvars, chanvars, cellvars>>

ChopOf(q, mut) ==
    LET r == IF mut THEN ChopMut(q) ELSE Chop(q)
    IN  [q |-> r.q,
         i |-> [live |-> r.res = "ok", it |-> r.it, chain |-> ChainOf(q, r.it.ptr, MaxBlocks)],
         o |-> [op |-> "chop", res |-> r.res, out |-> <<>>]]

\* chop() on sa; chop_mut() or chop() on sm
SeqChop(mut) ==
    /\ ~(haltA /\ haltM) /\ ~ia.live /\ ~im.live
    /\ LET a == After(haltA, sa, ia, obsA, ChopOf(sa, FALSE))
           m == After(haltM, sm, im, obsM, ChopOf(sm, mut))
       IN  /\ sa' = a.q /\ sm' = m.q /\ ia' = a.i /\ im' = m.i
           /\ obsA' = a.o /\ obsM' = m.o
           /\ doneA' = (~haltA /\ a.o.res # "ok")
    /\ IF haltA THEN UNCHANGED <<expA, pendA, gotA>>
       ELSE expA' = Reverse(pendA) /\ pendA' = <<>> /\ gotA' = <<>>
    /\ UNCHANGED <<npush, haltA, haltM, convars, flagvars, chanvars, cellvars>>

\* the observation of a next call on an iterator record
NextOf(q, i, u) ==
    IF i.live
    THEN LET n == IterNext(q, i.it, u)
         IN  [q |-> n.q, i |-> [i EXCEPT !.it = n.it, !.live = (n.res = "some")],
              o |-> [op |-> "next", res |-> n.res,
                     out |-> IF n.res = "some" THEN <<n.out>> ELSE <<>>]]
    ELSE [q |-> q, i |-> i, o |-> [op |-> "next", res |-> "noiter", out |-> <<>>]]

\* next() on the iterators the last chop returned
SeqIterNext(u) ==
    /\ (~haltA /\ ia.live) \/ (~haltM /\ im.live)
    /\ LET a == After(haltA, sa, ia, obsA, NextOf(sa, ia, u))
           m == After(haltM, sm, im, obsM, NextOf(sm, im, u))
       IN  /\ sa' = a.q /\ sm' = m.q /\ ia' = a.i /\ im' = m.i
           /\ obsA' = a.o /\ obsM' = m.o
           /\ gotA' = IF ~haltA /\ a.o.res = "some" THEN gotA \o a.o.out ELSE gotA
           /\ doneA' = (doneA \/ (~haltA /\ a.o.res = "none"))
           /\ haltA' = (haltA \/ Stops(a)) /\ haltM' = (haltM \/ Stops(m))
    /\ UNCHANGED <<pendA, expA, npush, convars, flagvars, chanvars, cellvars>>

\* the observation of dropping an iterator record
DropOf(q, i, u) ==
    IF i.live
    THEN LET d == IterDrop(q, i.it, u)
         IN  [q |-> d.q, i |-> [i EXCEPT !.it = d.it, !.live = FALSE],
              o |-> [op |-> "drop", res |-> d.res, out |-> d.out]]
    ELSE [q |-> q, i |-> i, o |-> [op |-> "drop", res |-> "noiter", out |-> <<>>]]

\* drop of the iterators the last chop returned
SeqIterDrop(u) ==
    /\ (~haltA /\ ia.live) \/ (~haltM /\ im.live)
    /\ LET a == After(haltA, sa, ia, obsA, DropOf(sa, ia, u))
           m == After(haltM, sm, im, obsM, DropOf(sm, im, u))
       IN  /\ sa' = a.q /\ sm' = m.q /\ ia' = a.i /\ im' = m.i
           /\ obsA' = a.o /\ obsM' = m.o
           /\ haltA' = (haltA \/ Stops(a)) /\ haltM' = (haltM \/ Stops(m))
    /\ UNCHANGED <<pendA, expA, gotA, doneA, npush, convars, flagvars, chanvars, cellvars>>

\* FillQueue::drop: the body of chop_mut, then the ChopIter it built goes out
\* of scope and is dropped
QueueDropOf(q, u) ==
    LET c == ChopMut(q)
        d == IterDrop(c.q, c.it, u)
    IN  [q |-> d.q,
         i |-> [live |-> FALSE, it |-> d.it, chain |-> ChainOf(q, c.it.ptr, MaxBlocks)],
         o |-> [op |-> "qdrop", res |-> d.res, out |-> d.out]]

\* both queues are dropped; nothing can be called on them afterwards
SeqQueueDrop(u) ==
    /\ ~(haltA /\ haltM) /\ ~ia.live /\ ~im.live
    /\ LET a == After(haltA, sa, ia, obsA, QueueDropOf(sa, u))
           m == After(haltM, sm, im, obsM, QueueDropOf(sm, u))
       IN  /\ sa' = a.q /\ sm' = m.q /\ ia' = a.i /\ im' = m.i
           /\ obsA' = a.o /\ obsM' = m.o
    /\ haltA' = TRUE /\ haltM' = TRUE
    /\ UNCHANGED <<pendA, expA, gotA, doneA, npush, convars, flagvars, chanvars, cellvars>>

\* FillQueue::is_empty: the body is todo!()
IsEmpty(q) == [q |-> q, res |-> "panic"]

IsEmptyOf(q, i) ==
    [q |-> IsEmpty(q).q, i |-> i, o |-> [op |-> "is_empty", res |-> IsEmpty(q).res, out |-> <<>>]]

SeqIsEmpty ==
    /\ ~(haltA /\ haltM) /\ obsA.op # "is_empty" /\ obsM.op # "is_empty"
    /\ LET a == After(haltA, sa, ia, obsA, IsEmptyOf(sa, ia))
           m == After(haltM, sm, im, obsM, IsEmptyOf(sm, im))
       IN  sa' = a.q /\ sm' = m.q /\ obsA' = a.o /\ obsM' = m.o
    /\ UNCHANGED <<ia, im, pendA, expA, gotA, doneA, npush, haltA, haltM, convars, flagvars, chanvars, cellvars>>

SeqStep ==
    \/ \E allocOk \in BOOLEAN, mut \in BOOLEAN : SeqPush(allocOk, mut)
    \/ \E mut \in BOOLEAN : SeqChop(mut)
    \/ \E u \in UB : SeqIterNext(u)
    \/ \E u \in UB : SeqIterDrop(u)
    \/ \E u \in UB : SeqQueueDrop(u)
    \/ SeqIsEmpty


\* ----------------------------------------------------------------------
\* Threads sharing one queue through &self: every step of try_push and of
\* ChopIter::next is one action; chop is one atomic swap.
\* ----------------------------------------------------------------------
Threads == 1..NThreads

\* a thread: the call in progress, its locals, and the ChopIter it owns
IdleThread ==
    [op |-> "idle", pl |-> PushLocal(NoVal), nl |-> NextLocal, it |-> NoIter, own |-> FALSE]

ConInitAt(i0) ==
    /\ cq = FillQueueNew(i0)
    /\ th = [t \in Threads |-> IdleThread]
    /\ cnpush = 0
    /\ pushed = {}
    /\ taken = [v \in Values \cup {Garbage} |-> 0]
    /\ crashed = FALSE

CanCall(t) == ~crashed /\ th[t].op = "idle" /\ ~th[t].own

\* a thread enters try_push
PushCall(t) ==
    /\ CanCall(t) /\ cnpush < MaxPush
    /\ th' = [th EXCEPT ![t].op = "push", ![t].pl = PushLocal(cnpush + 1)]
    /\ cnpush' = cnpush + 1
    /\ UNCHANGED <<cq, pushed, taken, crashed, seqvars, flagvars, chanvars, cellvars>>

\* one step of a try_push in progress
PushStep(t, allocOk, u) ==
    /\ ~crashed /\ th[t].op = "push"
    /\ LET s == TryPushStep(cq, th[t].pl, allocOk, u)
       IN  /\ cq' = s.q
           /\ th' = [th EXCEPT ![t].pl = s.l,
                               ![t].op = IF s.l.pc \in PushFinal THEN "idle" ELSE "push"]
           /\ pushed' = IF s.l.pc = "ok" THEN pushed \cup {s.l.v} ELSE pushed
           /\ crashed' = (s.l.pc = "crash")
    /\ UNCHANGED <<cnpush, taken, seqvars, flagvars, chanvars, cellvars>>

\* chop: one atomic swap of the head
ChopCall(t) ==
    /\ CanCall(t)
    /\ LET r == Chop(cq)
       IN  /\ cq' = r.q
           /\ th' = [th EXCEPT ![t].it = r.it, ![t].own = (r.res = "ok")]
    /\ UNCHANGED <<cnpush, pushed, taken, crashed, seqvars, flagvars, chanvars, cellvars>>

\* a thread calls next on its iterator (drop = FALSE) or drops it
IterCall(t, drop) ==
    /\ ~crashed /\ th[t].op = "idle" /\ th[t].own
    /\ th' = [th EXCEPT ![t].op = IF drop THEN "drop" ELSE "next", ![t].nl = NextLocal]
    /\ UNCHANGED <<cq, cnpush, pushed, taken, crashed, seqvars, flagvars, chanvars, cellvars>>

\* one step of ChopIter::next, called directly or from ChopIter::drop
IterStep(t, u) ==
    /\ ~crashed /\ th[t].op \in {"next", "drop"}
    /\ LET s == NextStep(cq, th[t].it, th[t].nl, u)
           fin == s.l.pc \in NextFinal
       IN  /\ cq' = s.q
           /\ th' = [th EXCEPT
                        ![t].it = s.it,
                        ![t].nl = IF fin /\ th[t].op = "drop" THEN NextLocal ELSE s.l,
                        ![t].own = (s.l.pc # "none"),
                        ![t].op = CASE s.l.pc = "some" /\ th[t].op = "drop" -> "drop"
                                    [] fin -> "idle"
                                    [] OTHER -> th[t].op]
           /\ taken' = IF s.l.pc = "some" THEN [taken EXCEPT ![s.l.out] = @ + 1] ELSE taken
           /\ crashed' = (s.l.pc = "crash")
    /\ UNCHANGED <<cnpush, pushed, seqvars, flagvars, chanvars, cellvars>>

ConStep ==
    \/ \E t \in Threads : PushCall(t)
    \/ \E t \in Threads, allocOk \in BOOLEAN, u \in UB : PushStep(t, allocOk, u)
    \/ \E t \in Threads : ChopCall(t)
    \/ \E t \in Threads, drop \in BOOLEAN : IterCall(t, drop)
    \/ \E t \in Threads, u \in UB : IterStep(t, u)

\* the steps of the calls in progress: every running thread keeps being scheduled
Running(t) ==
    \/ \E allocOk \in BOOLEAN, u \in UB : PushStep(t, allocOk, u)
    \/ \E u \in UB : IterStep(t, u)

\* ----------------------------------------------------------------------
\* Flags.  An mpmc flag is an Arc<FlagQueue> around a FillQueue<Lock>; an
\* mpsc flag is an Arc<FlagWaker> around one Option<Lock>.  A Lock holds the
\* Thread that made it and unparks that thread when it is dropped; waiting
\* is std::thread::park, which returns when the thread's token is set and
\* clears it.  The allocator does not fail here.
\* ----------------------------------------------------------------------
Flags == 1..NFlags
Kinds == {"mpmc", "mpsc"}
NoThread == 0

\* flag(): one Flag handle (the only strong reference), one Subscribe, no
\* waker registered.  `sub`: the mpsc Subscribe has not been consumed;
\* `dropres`: how the destructor of the shared part ended; `woke`: the
\* threads it unparked; `pend`: the silent_drop calls whose try_unwrap
\* failed and that still hold their Arc; `silenced`: silent_drop was called
\* on the only remaining handle.  What the queue
\* level idx holds makes no difference to a flag's queue, whose head is
\* never a block.
NewFlag(k) ==
    [kind |-> k, strong |-> 1, handles |-> 1, waker |-> NoThread, sub |-> TRUE,
     q |-> FillQueueNew(0), dropres |-> "none",
     pend |-> 0, silenced |-> FALSE, woke |-> {}]

\* a thread that is not inside wait / wait_timeout
IdleWaiter ==
    [pc |-> "idle", f |-> 1, timed |-> FALSE, found |-> FALSE, pl |-> PushLocal(NoVal)]

FlagInitAt(k) ==
    /\ fl = [f \in Flags |-> NewFlag(k[f])]
    /\ wt = [t \in Threads |-> IdleWaiter]
    /\ token = [t \in Threads |-> FALSE]
    /\ fcrashed = FALSE

\* Lock::drop for the Locks of the threads in S: Thread::unpark sets the token
Unpark(tok, S) == [t \in Threads |-> tok[t] \/ t \in S]

\* the destructor of the shared part.  mpsc: the Option<Lock> is dropped.
\* mpmc, FlagQueue::drop: self.0.chop_mut().for_each(Lock::wake)
DropInner(F, u) ==
    IF F.kind # "mpmc"
    THEN [F |-> [F EXCEPT !.waker = NoThread, !.dropres = "ok",
                          !.woke = {F.waker} \cap Threads],
          woke |-> {F.waker} \cap Threads]
    ELSE LET c == ChopMut(F.q)
             d == IterDrop(c.q, c.it, u)
         IN  [F |-> [F EXCEPT !.q = d.q, !.dropres = d.res,
                              !.woke = {d.out[k] : k \in 1..Len(d.out)} \cap Threads],
              woke |-> {d.out[k] : k \in 1..Len(d.out)} \cap Threads]

\* Arc::drop: the destructor runs when the last strong reference goes
ArcDrop(F, u) ==
    LET G == [F EXCEPT !.strong = @ - 1]
    IN  IF G.strong = 0 THEN DropInner(G, u) ELSE [F |-> G, woke |-> {}]

\* the destructor went through a pointer that is no block: from there on
\* the program has no defined behaviour (it faults, or never gets further)
Undefined(F) == F.dropres \in {"crash", "hang"}

\* Flag::clone
FlagClone(f) ==
    /\ ~fcrashed /\ fl[f].handles > 0 /\ fl[f].handles + fl[f].pend < MaxHandles
    /\ fl' = [fl EXCEPT ![f].handles = @ + 1, ![f].strong = @ + 1]
    /\ UNCHANGED <<wt, token, fcrashed, seqvars, convars, chanvars, cellvars>>

\* Flag::mark, or the drop of a Flag handle: both drop the Arc
FlagDrop(f, u) ==
    /\ ~fcrashed /\ fl[f].handles > 0
    /\ LET r == ArcDrop([fl[f] EXCEPT !.handles = @ - 1], u)
       IN  /\ fl' = [fl EXCEPT ![f] = r.F]
           /\ token' = Unpark(token, r.woke)
           /\ fcrashed' = Undefined(r.F)
    /\ UNCHANGED <<wt, seqvars, convars, chanvars, cellvars>>

\* Subscribe::wait (timed = FALSE) or wait_timeout, up to self.inner.upgrade()
WaitCall(t, f, timed) ==
    /\ ~fcrashed /\ wt[t].pc = "idle" /\ fl[f].kind \in Kinds
    /\ fl[f].kind = "mpsc" => fl[f].sub
    /\ IF fl[f].strong > 0
       THEN /\ fl' = [fl EXCEPT ![f].strong = @ + 1, ![f].sub = (fl[f].kind = "mpmc")]
            /\ wt' = [wt EXCEPT ![t] = [pc |-> IF fl[f].kind = "mpmc" THEN "push" ELSE "store",
                                        f |-> f, timed |-> timed, found |-> fl[f].handles > 0,
                                        pl |-> PushLocal(t)]]
       ELSE /\ fl' = [fl EXCEPT ![f].sub = (fl[f].kind = "mpmc")]
            /\ wt' = [wt EXCEPT ![t] = [pc |-> "ret", f |-> f, timed |-> timed, found |-> FALSE,
                                        pl |-> PushLocal(NoVal)]]
    /\ UNCHANGED <<token, fcrashed, seqvars, convars, chanvars, cellvars>>

\* mpmc: one step of queue.0.push(waker); push is try_push(v).unwrap()
WaitPush(t) ==
    /\ ~fcrashed /\ wt[t].pc = "push"
    /\ LET f == wt[t].f
           s == TryPushStep(fl[f].q, wt[t].pl, TRUE, "crash")
       IN  /\ fl' = [fl EXCEPT ![f].q = s.q]
           /\ wt' = [wt EXCEPT ![t].pl = s.l,
                               ![t].pc = CASE s.l.pc = "ok" -> "unref"
                                           [] s.l.pc \in PushFinal -> "panic"
                                           [] OTHER -> "push"]
    /\ UNCHANGED <<token, fcrashed, seqvars, convars, chanvars, cellvars>>

\* mpsc: *queue.waker.get() = Some(lock); the Lock that was there is dropped
WaitStore(t) ==
    /\ ~fcrashed /\ wt[t].pc = "store"
    /\ LET f == wt[t].f
       IN  /\ fl' = [fl EXCEPT ![f].waker = t]
           /\ token' = Unpark(token, {fl[f].waker} \cap Threads)
    /\ wt' = [wt EXCEPT ![t].pc = "unref"]
    /\ UNCHANGED <<fcrashed, seqvars, convars, chanvars, cellvars>>

\* drop(queue): the strong reference taken by upgrade() goes
WaitUnref(t, u) ==
    /\ ~fcrashed /\ wt[t].pc = "unref"
    /\ LET f == wt[t].f
           r == ArcDrop(fl[f], u)
       IN  /\ fl' = [fl EXCEPT ![f] = r.F]
           /\ token' = Unpark(token, r.woke)
           /\ fcrashed' = Undefined(r.F)
           /\ wt' = [wt EXCEPT ![t].pc = "park"]
    /\ UNCHANGED <<seqvars, convars, chanvars, cellvars>>

\* std::thread::park / park_timeout returns on the token and clears it
ParkWake(t) ==
    /\ ~fcrashed /\ wt[t].pc = "park" /\ token[t]
    /\ token' = [token EXCEPT ![t] = FALSE]
    /\ wt' = [wt EXCEPT ![t].pc = "ret"]
    /\ UNCHANGED <<fl, fcrashed, seqvars, convars, chanvars, cellvars>>

\* std::thread::park_timeout returns when the duration has passed
ParkTimeout(t) ==
    /\ ~fcrashed /\ wt[t].pc = "park" /\ wt[t].timed /\ ~token[t]
    /\ wt' = [wt EXCEPT ![t].pc = "ret"]
    /\ UNCHANGED <<fl, token, fcrashed, seqvars, convars, chanvars, cellvars>>

\* wait / wait_timeout has returned to its caller
WaitReturn(t) ==
    /\ ~fcrashed /\ wt[t].pc = "ret"
    /\ wt' = [wt EXCEPT ![t] = IdleWaiter]
    /\ UNCHANGED <<fl, token, fcrashed, seqvars, convars, chanvars, cellvars>>

\* the shared part taken out of the Arc and dropped silently.  mpsc:
\* inner.waker.into_inner() and Lock::silent_drop on what it holds.  mpmc,
\* FlagQueue::silent_drop: this.0.chop_mut().for_each(Lock::silent_drop);
\* no destructor runs after it.  No thread is unparked.
SilentInner(F, u) ==
    IF F.kind # "mpmc"
    THEN [F EXCEPT !.waker = NoThread, !.dropres = "silent"]
    ELSE LET c == ChopMut(F.q)
             d == IterDrop(c.q, c.it, u)
         IN  [F EXCEPT !.q = d.q, !.dropres = IF d.res = "ok" THEN "silent" ELSE d.res]

\* Flag::silent_drop up to Arc::try_unwrap: with one strong reference the
\* shared part is taken out and dropped silently; otherwise try_unwrap hands
\* the Arc back as Err(arc), which is still to be dropped
FlagSilentDrop(f, u) ==
    /\ ~fcrashed /\ fl[f].handles > 0
    /\ LET F == [fl[f] EXCEPT !.handles = @ - 1, !.silenced = @ \/ fl[f].handles = 1]
           G == IF F.strong = 1
                THEN SilentInner([F EXCEPT !.strong = 0], u)
                ELSE [F EXCEPT !.pend = @ + 1]
       IN  /\ fl' = [fl EXCEPT ![f] = G]
           /\ fcrashed' = Undefined(G)
    /\ UNCHANGED <<wt, token, seqvars, convars, chanvars, cellvars>>

\* Flag::silent_drop, the end of the `if let`: the Err(arc) is dropped
SilentRelease(f, u) ==
    /\ ~fcrashed /\ fl[f].pend > 0
    /\ LET r == ArcDrop([fl[f] EXCEPT !.pend = @ - 1], u)
       IN  /\ fl' = [fl EXCEPT ![f] = r.F]
           /\ token' = Unpark(token, r.woke)
           /\ fcrashed' = Undefined(r.F)
    /\ UNCHANGED <<wt, seqvars, convars, chanvars, cellvars>>

\* The async mpsc flag (kind "async"): AsyncFlag holds an Arc<AsyncFlagWaker>,
\* which has one slot for the Waker of the task polling the AsyncSubscribe, and
\* is cloned, marked, dropped and silently dropped as the blocking flag is.
SilentKinds == Kinds \cup {"async"}

\* AsyncSubscribe::poll: while the flag is alive the task's waker is stored and
\* the poll is Pending; afterwards the Weak is let go and the poll is Ready
AsyncPoll(t, f) ==
    /\ ~fcrashed /\ wt[t].pc = "idle" /\ fl[f].kind = "async" /\ fl[f].sub
    /\ fl' = [fl EXCEPT ![f].waker = IF fl[f].strong > 0 THEN t ELSE @,
                        ![f].sub = fl[f].strong > 0]
    /\ token' = [token EXCEPT ![t] = FALSE]
    /\ UNCHANGED <<wt, fcrashed, seqvars, convars, chanvars, cellvars>>

\* mpsc Subscribe::is_marked: self.inner.strong_count() == 0
IsMarkedNever(F) == FALSE
IsMarked(F) == F.strong = 0

\* AsyncSubscribe::is_marked: !is_some_and(self.inner, |x| x.strong_count() > 0)
AsyncIsMarked(F) == ~(F.sub /\ F.strong > 0)

FlagStep ==
    \/ \E f \in Flags : FlagClone(f)
    \/ \E f \in Flags, u \in UB : FlagDrop(f, u)
    \/ \E t \in Threads, f \in Flags, timed \in BOOLEAN : WaitCall(t, f, timed)
    \/ \E t \in Threads : WaitPush(t)
    \/ \E t \in Threads : WaitStore(t)
    \/ \E t \in Threads, u \in UB : WaitUnref(t, u)
    \/ \E t \in Threads : ParkWake(t)
    \/ \E t \in Threads : ParkTimeout(t)
    \/ \E t \in Threads : WaitReturn(t)

\* the steps of a wait in progress: its thread keeps being scheduled, and a
\* timeout that was set expires
Waiting(t) ==
    \/ WaitPush(t)
    \/ WaitStore(t)
    \/ \E u \in UB : WaitUnref(t, u)
    \/ ParkWake(t)
    \/ ParkTimeout(t)
    \/ WaitReturn(t)

\* the flags whose handles are also dropped silently, and the steps taken on
\* them (the other flags are left as constructed)
SilentFlags == {1}

SilentStep ==
    \/ \E f \in SilentFlags : FlagClone(f)
    \/ \E f \in SilentFlags, u \in UB : FlagDrop(f, u)
    \/ \E f \in SilentFlags, u \in UB : FlagSilentDrop(f, u)
    \/ \E f \in SilentFlags, u \in UB : SilentRelease(f, u)
    \/ \E t \in Threads, f \in SilentFlags, timed \in BOOLEAN : WaitCall(t, f, timed)
    \/ \E t \in Threads, f \in SilentFlags : AsyncPoll(t, f)
    \/ \E t \in Threads : WaitPush(t)
    \/ \E t \in Threads : WaitStore(t)
    \/ \E t \in Threads, u \in UB : WaitUnref(t, u)
    \/ \E t \in Threads : ParkWake(t)
    \/ \E t \in Threads : ParkTimeout(t)
    \/ \E t \in Threads : WaitReturn(t)

\* ----------------------------------------------------------------------
\* The async mpmc flag: AsyncFlag holds an Arc<AsyncFlagQueue> around a
\* FillQueue<Waker>, and is cloned, marked and dropped as the blocking mpmc
\* flag is (kind "mpmc": the destructor is chop_mut().for_each(Waker::wake)).
\* Each task polls its own clone of the AsyncSubscribe; token[t] is set when
\* the task's Waker is woken.
\* ----------------------------------------------------------------------
\* a task outside poll.  `inner`: its AsyncSubscribe still holds the Weak;
\* `last`: how its latest poll ended; `found`: an AsyncFlag handle was alive
\* when that poll looked
IdleTask ==
    [pc |-> "idle", f |-> 1, timed |-> FALSE, found |-> FALSE, pl |-> PushLocal(NoVal),
     inner |-> TRUE, last |-> "none"]

\* AsyncSubscribe::poll up to queue.upgrade(): with the shared part gone (or
\* the Weak let go by an earlier poll) self.inner = None and Ready(())
AsyncPollCall(t, f) ==
    /\ ~fcrashed /\ wt[t].pc = "idle"
    /\ IF wt[t].inner /\ fl[f].strong > 0
       THEN /\ fl' = [fl EXCEPT ![f].strong = @ + 1]
            /\ wt' = [wt EXCEPT ![t].pc = "push", ![t].f = f, ![t].pl = PushLocal(t),
                                ![t].found = fl[f].handles > 0, ![t].last = "polling"]
       ELSE /\ fl' = fl
            /\ wt' = [wt EXCEPT ![t].inner = FALSE, ![t].f = f,
                                ![t].found = fl[f].handles > 0, ![t].last = "ready"]
    /\ token' = [token EXCEPT ![t] = FALSE]
    /\ UNCHANGED <<fcrashed, seqvars, convars, chanvars, cellvars>>

\* the end of poll after queue.0.push(waker): the upgraded Arc goes out of
\* scope and Poll::Pending is returned
AsyncPollReturn(t, u) ==
    /\ ~fcrashed /\ wt[t].pc = "unref"
    /\ LET f == wt[t].f
           r == ArcDrop(fl[f], u)
       IN  /\ fl' = [fl EXCEPT ![f] = r.F]
           /\ token' = Unpark(token, r.woke)
           /\ fcrashed' = Undefined(r.F)
           /\ wt' = [wt EXCEPT ![t].pc = "idle",
                               ![t].last = IF Undefined(r.F) THEN r.F.dropres ELSE "pending"]
    /\ UNCHANGED <<seqvars, convars, chanvars, cellvars>>

AsyncStep ==
    \/ \E f \in SilentFlags : FlagClone(f)
    \/ \E f \in SilentFlags, u \in UB : FlagDrop(f, u)
    \/ \E t \in Threads, f \in SilentFlags : AsyncPollCall(t, f)
    \/ \E t \in Threads : WaitPush(t)
    \/ \E t \in Threads, u \in UB : AsyncPollReturn(t, u)

\* the steps of a poll in progress: its task keeps being run
Polling(t) == WaitPush(t) \/ \E u \in UB : AsyncPollReturn(t, u)

\* ----------------------------------------------------------------------
\* Notify.  notify() makes an Arc<Inner> around a FillQueue<Lock>; a Notify
\* handle holds the Arc, a Listener a Weak.  The notifier is fl[1]; wt holds
\* the threads that call recv / try_recv on a Listener.
\* ----------------------------------------------------------------------
Notifier == 1

\* notify(): one Notify handle, one Listener, an empty waiter queue.
\* `last`: the latest notify_all call, with the threads registered when it
\* was made and the threads it unparked
NewNotify ==
    [kind |-> "notify", strong |-> 1, handles |-> 1, listeners |-> 1,
     q |-> FillQueueNew(0), dropres |-> "none", woke |-> {},
     last |-> [res |-> "none", reg |-> {}, woke |-> {}]]

\* a thread outside recv; `noted`: a notify_all call was made since this
\* thread's recv registered; `res`: what its last try_recv returned
IdleListener == [pc |-> "idle", pl |-> PushLocal(NoVal), noted |-> FALSE, res |-> "none"]

\* A thread may come to the notifier with the park token a timed-out flag
\* wait left it (FlagSpec reaches such threads).
NotifyInitAt ==
    /\ fl = [f \in Flags |-> IF f = Notifier THEN NewNotify ELSE NewFlag("mpsc")]
    /\ wt = [t \in Threads |-> IdleListener]
    /\ token \in [Threads -> BOOLEAN]
    /\ fcrashed = FALSE

\* Arc::weak_count(&self.inner), as Notify::listeners returns it
ArcWeakCount(N) == N.listeners

\* Weak::weak_count(&self.inner), as Listener::listeners returns it: zero
\* once no strong reference remains
WeakWeakCount(N) == IF N.strong = 0 THEN 0 ELSE N.listeners

\* FillQueue::drop: the head is taken as in chop_mut and the ChopIter made of
\* it is dropped, which drops every Lock it yields
QueueDrop(q, u) == IterDrop(ChopMut(q).q, ChopMut(q).it, u)

\* Arc<Inner>::drop: Inner has no destructor of its own; when the last strong
\* reference goes its FillQueue is dropped
InnerDrop(N, u) ==
    LET G == [N EXCEPT !.strong = @ - 1]
        d == QueueDrop(G.q, u)
        w == {d.out[k] : k \in 1..Len(d.out)} \cap Threads
    IN  IF G.strong > 0 THEN [F |-> G, woke |-> {}]
        ELSE [F |-> [G EXCEPT !.q = d.q, !.dropres = d.res, !.woke = w], woke |-> w]

\* Notify::clone
NotifyClone ==
    /\ ~fcrashed /\ fl[Notifier].handles > 0 /\ fl[Notifier].handles < MaxHandles
    /\ fl' = [fl EXCEPT ![Notifier].handles = @ + 1, ![Notifier].strong = @ + 1]
    /\ UNCHANGED <<wt, token, fcrashed, seqvars, convars, chanvars, cellvars>>

\* the drop of a Notify handle
NotifyDrop(u) ==
    /\ ~fcrashed /\ fl[Notifier].handles > 0
    /\ LET r == InnerDrop([fl[Notifier] EXCEPT !.handles = @ - 1], u)
       IN  /\ fl' = [fl EXCEPT ![Notifier] = r.F]
           /\ token' = Unpark(token, r.woke)
           /\ fcrashed' = Undefined(r.F)
    /\ UNCHANGED <<wt, seqvars, convars, chanvars, cellvars>>

\* the threads whose recv has registered its Lock and is parked
Parked == {t \in Threads : wt[t].pc = "rpark"}

\* Notify::notify_all: self.inner.wakers.chop().for_each(Lock::wake).  The
\* chain chop detaches is walked by this call alone.
NotifyAll(u) ==
    /\ ~fcrashed /\ fl[Notifier].handles > 0
    /\ LET c == Chop(fl[Notifier].q)
           d == IterDrop(c.q, c.it, u)
           w == IF c.res = "ok" THEN {d.out[k] : k \in 1..Len(d.out)} \cap Threads ELSE {}
           r == IF c.res = "ok" THEN d.res ELSE c.res
       IN  /\ fl' = [fl EXCEPT ![Notifier].q = IF c.res = "ok" THEN d.q ELSE c.q,
                               ![Notifier].last =
                                   [res |-> r, woke |-> w,
                                    reg |-> {t \in Parked : ~wt[t].noted}]]
           /\ token' = Unpark(token, w)
           /\ fcrashed' = (r \in {"crash", "hang"})
    /\ wt' = [t \in Threads |-> IF t \in Parked THEN [wt[t] EXCEPT !.noted = TRUE] ELSE wt[t]]
    /\ UNCHANGED <<seqvars, convars, chanvars, cellvars>>

\* Notify::listen, or Listener::clone: one more Weak
ListenerNew(byNotify) ==
    /\ ~fcrashed /\ fl[Notifier].listeners < MaxListeners
    /\ IF byNotify THEN fl[Notifier].handles > 0 ELSE fl[Notifier].listeners > 0
    /\ fl' = [fl EXCEPT ![Notifier].listeners = @ + 1]
    /\ UNCHANGED <<wt, token, fcrashed, seqvars, convars, chanvars, cellvars>>

\* the drop of a Listener no recv call is borrowing
ListenerDrop ==
    /\ ~fcrashed /\ fl[Notifier].listeners > 0
    /\ fl[Notifier].listeners > 1 \/ \A t \in Threads : wt[t].pc = "idle"
    /\ fl' = [fl EXCEPT ![Notifier].listeners = @ - 1]
    /\ UNCHANGED <<wt, token, fcrashed, seqvars, convars, chanvars, cellvars>>

\* Listener::try_recv (recv discards its result) up to self.inner.upgrade()
RecvCall(t) ==
    /\ ~fcrashed /\ wt[t].pc = "idle" /\ fl[Notifier].listeners > 0
    /\ IF fl[Notifier].strong > 0
       THEN /\ fl' = [fl EXCEPT ![Notifier].strong = @ + 1]
            /\ wt' = [wt EXCEPT ![t] = [pc |-> "rpush", pl |-> PushLocal(t),
                                        noted |-> FALSE, res |-> "none"]]
       ELSE /\ wt' = [wt EXCEPT ![t] = [pc |-> "rret", pl |-> PushLocal(NoVal),
                                        noted |-> FALSE, res |-> "false"]]
            /\ UNCHANGED fl
    /\ UNCHANGED <<token, fcrashed, seqvars, convars, chanvars, cellvars>>

\* one step of inner.wakers.push(lock); then sub.wait() parks
RecvPush(t) ==
    /\ ~fcrashed /\ wt[t].pc = "rpush"
    /\ LET s == TryPushStep(fl[Notifier].q, wt[t].pl, TRUE, "crash")
       IN  /\ fl' = [fl EXCEPT ![Notifier].q = s.q]
           /\ wt' = [wt EXCEPT ![t].pl = s.l,
                               ![t].pc = CASE s.l.pc = "ok" -> "rpark"
                                           [] s.l.pc \in PushFinal -> "panic"
                                           [] OTHER -> "rpush"]
    /\ UNCHANGED <<token, fcrashed, seqvars, convars, chanvars, cellvars>>

\* std::thread::park returns on the token; try_recv then drops the Arc it
\* has held since upgrade() and returns true
RecvWake(t, u) ==
    /\ ~fcrashed /\ wt[t].pc = "rpark" /\ token[t]
    /\ LET r == InnerDrop(fl[Notifier], u)
       IN  /\ fl' = [fl EXCEPT ![Notifier] = r.F]
           /\ token' = Unpark([token EXCEPT ![t] = FALSE], r.woke)
           /\ fcrashed' = Undefined(r.F)
    /\ wt' = [wt EXCEPT ![t].pc = "rret", ![t].res = "true"]
    /\ UNCHANGED <<seqvars, convars, chanvars, cellvars>>

\* try_recv / recv has returned to its caller
RecvReturn(t) ==
    /\ ~fcrashed /\ wt[t].pc = "rret"
    /\ wt' = [wt EXCEPT ![t].pc = "idle"]
    /\ UNCHANGED <<fl, token, fcrashed, seqvars, convars, chanvars, cellvars>>

NotifyStep ==
    \/ NotifyClone
    \/ \E u \in UB : NotifyDrop(u)
    \/ \E u \in UB : NotifyAll(u)
    \/ \E byNotify \in BOOLEAN : ListenerNew(byNotify)
    \/ ListenerDrop
    \/ \E t \in Threads : RecvCall(t)
    \/ \E t \in Threads : RecvPush(t)
    \/ \E t \in Threads, u \in UB : RecvWake(t, u)
    \/ \E t \in Threads : RecvReturn(t)

\* the steps of a recv in progress
Receiving(t) ==
    \/ RecvPush(t)
    \/ \E u \in UB : RecvWake(t, u)
    \/ RecvReturn(t)

\* ----------------------------------------------------------------------
\* AsyncNotify.  async_notify() makes an Arc<AsyncInner> around a
\* FillQueue<AsyncFlag>; AsyncNotify is cloned, dropped and notifies as Notify
\* does, each yielded AsyncFlag being marked.  Each task polls its own
\* AsyncListener; the AsyncFlag task t registers carries t, and token[t] is
\* set when that flag is marked or dropped (its AsyncSubscribe is then ready
\* and the task's waker is woken).
\* ----------------------------------------------------------------------
\* a task outside poll_next.  `inner`: the listener still holds its Weak;
\* `sub`: it holds the AsyncSubscribe of a registration; `last`: how its
\* latest poll_next ended
ListenTask ==
    [pc |-> "idle", pl |-> PushLocal(NoVal), noted |-> FALSE, res |-> "none",
     inner |-> TRUE, sub |-> FALSE, last |-> "none"]

\* AsyncListener::poll_next up to the push: with a registration pending its
\* AsyncSubscribe is polled; without one the Weak is upgraded to register a
\* new flag; with the notifier gone the stream ends
ListenPollCall(t) ==
    /\ ~fcrashed /\ wt[t].pc = "idle"
    /\ IF wt[t].sub
       THEN /\ wt' = [wt EXCEPT ![t].sub = ~token[t],
                                ![t].last = IF token[t] THEN "some" ELSE "pending"]
            /\ token' = [token EXCEPT ![t] = FALSE]
            /\ fl' = fl
       ELSE IF wt[t].inner /\ fl[Notifier].strong > 0
       THEN /\ fl' = [fl EXCEPT ![Notifier].strong = @ + 1]
            /\ wt' = [wt EXCEPT ![t].pc = "rpush", ![t].pl = PushLocal(t),
                                ![t].noted = FALSE, ![t].last = "polling"]
            /\ token' = token
       ELSE /\ wt' = [wt EXCEPT ![t].inner = FALSE, ![t].last = "end"]
            /\ fl' = fl /\ token' = token
    /\ UNCHANGED <<fcrashed, seqvars, convars, chanvars, cellvars>>

\* poll_next after inner.wakers.push(flag): self.sub = Some(sub), the inner
\* poll_next polls it, and the upgraded Arc goes out of scope
ListenPollReturn(t, u) ==
    /\ ~fcrashed /\ wt[t].pc = "rpark"
    /\ LET r == InnerDrop(fl[Notifier], u)
       IN  /\ fl' = [fl EXCEPT ![Notifier] = r.F]
           /\ token' = Unpark([token EXCEPT ![t] = FALSE], r.woke)
           /\ fcrashed' = Undefined(r.F)
           /\ wt' = [wt EXCEPT ![t].pc = "idle", ![t].sub = ~token[t],
                               ![t].last = CASE Undefined(r.F) -> r.F.dropres
                                             [] token[t] -> "some"
                                             [] OTHER -> "pending"]
    /\ UNCHANGED <<seqvars, convars, chanvars, cellvars>>

ListenStep ==
    \/ NotifyClone
    \/ \E u \in UB : NotifyDrop(u)
    \/ \E u \in UB : NotifyAll(u)
    \/ \E t \in Threads : ListenPollCall(t)
    \/ \E t \in Threads : RecvPush(t)
    \/ \E t \in Threads, u \in UB : ListenPollReturn(t, u)

\* ----------------------------------------------------------------------
\* The once channel.  channel() makes an Arc<Inner> around one value cell and
\* an mpsc flag: the Receiver holds the Arc and the Subscribe, the Sender a
\* Weak and the Flag.  The flag is fl[ChanFlag]; the Receiver is used by
\* thread RxThread.
\* ----------------------------------------------------------------------
ChanFlag == 1
RxThread == 1

\* channel(): inner = strong count of Arc<Inner>, v = the cell (NoVal: None).
\* tx, rx: where the Sender and the Receiver are.  sv: the value handed to
\* try_send; alive: whether the Receiver existed when try_send was called;
\* stored: what try_send wrote; sres, back: what try_send returned; got: what
\* wait returned; at: where the Sender was when wait returned
NewChannel ==
    [inner |-> 1, v |-> NoVal, tx |-> "held", rx |-> "held",
     sv |-> NoVal, alive |-> FALSE, stored |-> NoVal, sres |-> "none", back |-> NoVal,
     got |-> NoVal, at |-> "none"]

ChanUnused == ch = NewChannel

\* the receiving thread may bring a park token an earlier timed-out flag
\* wait left it (FlagSpec reaches such threads)
ChanInitAt ==
    /\ ch = NewChannel
    /\ fl = [f \in Flags |-> NewFlag("mpsc")]
    /\ wt = [t \in Threads |-> IdleWaiter]
    /\ token \in [Threads -> BOOLEAN]
    /\ fcrashed = FALSE

\* self.inner.upgrade() in try_send
InnerUpgradeAlways(c) == TRUE
InnerUpgrade(c) == c.inner > 0

\* the Sender's Flag goes (mark, or the drop of the Sender): the mpsc
\* destructor walks no queue, so no outcome of undefined behaviour is read
SenderFlagDrop == ArcDrop([fl[ChanFlag] EXCEPT !.handles = @ - 1], "crash")

\* Sender::try_send(t) up to the upgrade (send discards the result)
ChanSendCall(v) ==
    /\ ch.tx = "held"
    /\ ch' = [ch EXCEPT !.sv = v,
                        !.alive = ch.rx = "held",
                        !.inner = IF InnerUpgrade(ch) THEN @ + 1 ELSE @,
                        !.tx = IF InnerUpgrade(ch) THEN "store" ELSE "fail"]
    /\ UNCHANGED <<flagvars, seqvars, convars, cellvars>>

\* *inner.v.get() = Some(t)
ChanSendStore ==
    /\ ch.tx = "store"
    /\ ch' = [ch EXCEPT !.v = ch.sv, !.stored = ch.sv, !.tx = "mark"]
    /\ UNCHANGED <<flagvars, seqvars, convars, cellvars>>

\* self.flag.mark(); return Ok(()), which drops the upgraded Arc
ChanSendMark ==
    /\ ch.tx = "mark"
    /\ fl' = [fl EXCEPT ![ChanFlag] = SenderFlagDrop.F]
    /\ token' = Unpark(token, SenderFlagDrop.woke)
    /\ ch' = [ch EXCEPT !.tx = "ret", !.sres = "ok", !.inner = @ - 1,
                        !.v = IF ch.inner = 1 THEN NoVal ELSE @]
    /\ UNCHANGED <<wt, fcrashed, seqvars, convars, cellvars>>

\* return Err(t): the value goes back, the Sender and its Flag are dropped
ChanSendFail ==
    /\ ch.tx = "fail"
    /\ fl' = [fl EXCEPT ![ChanFlag] = SenderFlagDrop.F]
    /\ token' = Unpark(token, SenderFlagDrop.woke)
    /\ ch' = [ch EXCEPT !.tx = "ret", !.sres = "err", !.back = ch.sv]
    /\ UNCHANGED <<wt, fcrashed, seqvars, convars, cellvars>>

\* the drop of a Sender that has not sent
ChanSenderDrop ==
    /\ ch.tx = "held"
    /\ fl' = [fl EXCEPT ![ChanFlag] = SenderFlagDrop.F]
    /\ token' = Unpark(token, SenderFlagDrop.woke)
    /\ ch' = [ch EXCEPT !.tx = "dropped"]
    /\ UNCHANGED <<wt, fcrashed, seqvars, convars, cellvars>>

\* the drop of a Receiver that has not waited: its Arc and its Subscribe go
ChanRecvDrop ==
    /\ ch.rx = "held" /\ wt[RxThread].pc = "idle" /\ fl[ChanFlag].sub
    /\ ch' = [ch EXCEPT !.rx = "dropped", !.inner = @ - 1,
                        !.v = IF ch.inner = 1 THEN NoVal ELSE @]
    /\ fl' = [fl EXCEPT ![ChanFlag].sub = FALSE]
    /\ UNCHANGED <<wt, token, fcrashed, seqvars, convars, cellvars>>

\* Receiver::wait(self) starts with self.sub.wait()
ChanWaitCall ==
    /\ ch.rx = "held"
    /\ WaitCall(RxThread, ChanFlag, FALSE)

\* Receiver::wait after self.sub.wait() has returned: the cell is taken, the
\* result returned and the Receiver dropped.  A take while try_send is between
\* its upgrade and its mark is a data race with the write of the cell.
ChanTake(u) ==
    /\ ch.rx = "held" /\ wt[RxThread].pc = "ret"
    /\ wt' = [wt EXCEPT ![RxThread].pc = "idle"]
    /\ LET race == ch.tx \in {"store", "mark"}
           r == CASE ~race -> ch.v
                  [] race /\ u = "crash" -> Garbage
                  [] race /\ u = "spin" -> NoVal
                  [] OTHER -> ch.sv
       IN  ch' = [ch EXCEPT !.rx = "done", !.got = r, !.at = ch.tx,
                            !.v = NoVal, !.inner = @ - 1]
    /\ UNCHANGED <<fl, token, fcrashed, seqvars, convars, cellvars>>

ChanStep ==
    \/ \E v \in Values : ChanSendCall(v)
    \/ ChanSendStore
    \/ ChanSendMark
    \/ ChanSendFail
    \/ ChanSenderDrop
    \/ ChanRecvDrop
    \/ ChanWaitCall
    \/ WaitStore(RxThread)
    \/ \E u \in UB : WaitUnref(RxThread, u)
    \/ ParkWake(RxThread)
    \/ \E u \in UB : ChanTake(u)

\* ----------------------------------------------------------------------
\* TakeCell: an atomic flag `taken` and a value that is read out once.
\* ----------------------------------------------------------------------
\* TakeCell::new(v).  pc, res, calls: each thread's place in try_take, the
\* result it is about to return, the calls it has made.  nsome, nnone: how
\* many calls returned Some(v0) and None; nbad: how many returned anything else
TakeCellNew(v) ==
    [taken |-> FLAG_FALSE, v |-> v, v0 |-> v,
     pc |-> [t \in Threads |-> "idle"], res |-> [t \in Threads |-> NoVal],
     calls |-> [t \in Threads |-> 0], nsome |-> 0, nnone |-> 0, nbad |-> 0]

\* TakeCell::is_taken
IsTaken(c) == c.taken = FLAG_TRUE

\* taken.compare_exchange(FALSE, TRUE, ..).is_ok()
TakenCasOkAlways(c) == TRUE
TakenCasOk(c) == c.taken = FLAG_FALSE

\* try_take: the compare_exchange
TakeCas(t) ==
    /\ tc.pc[t] = "idle" /\ tc.calls[t] < MaxCalls
    /\ tc' = [tc EXCEPT !.taken = FLAG_TRUE,
                        !.calls[t] = @ + 1,
                        !.res[t] = NoVal,
                        !.pc[t] = IF TakenCasOk(tc) THEN "read" ELSE "ret"]
    /\ UNCHANGED <<ac, bb, seqvars, convars, flagvars, chanvars>>

\* try_take: v.assume_init_read() by the call whose compare_exchange won
TakeRead(t) ==
    /\ tc.pc[t] = "read"
    /\ tc' = [tc EXCEPT !.res[t] = tc.v, !.pc[t] = "ret"]
    /\ UNCHANGED <<ac, bb, seqvars, convars, flagvars, chanvars>>

\* try_take returns
TakeReturn(t) ==
    /\ tc.pc[t] = "ret"
    /\ tc' = [tc EXCEPT !.pc[t] = "idle",
                        !.nsome = IF tc.res[t] = tc.v0 THEN @ + 1 ELSE @,
                        !.nnone = IF tc.res[t] = NoVal THEN @ + 1 ELSE @,
                        !.nbad = IF tc.res[t] \notin {NoVal, tc.v0} THEN @ + 1 ELSE @]
    /\ UNCHANGED <<ac, bb, seqvars, convars, flagvars, chanvars>>

\* try_take_mut(&mut self): no other call is in progress
TakeMut(t) ==
    /\ \A o \in Threads : tc.pc[o] = "idle"
    /\ tc.calls[t] < MaxCalls
    /\ tc' = [tc EXCEPT !.taken = FLAG_TRUE,
                        !.calls[t] = @ + 1,
                        !.res[t] = IF tc.taken = FLAG_FALSE THEN tc.v ELSE NoVal,
                        !.pc[t] = "ret"]
    /\ UNCHANGED <<ac, bb, seqvars, convars, flagvars, chanvars>>

TakeStep ==
    \/ \E t \in Threads : TakeCas(t)
    \/ \E t \in Threads : TakeRead(t)
    \/ \E t \in Threads : TakeReturn(t)
    \/ \E t \in Threads : TakeMut(t)

\* ----------------------------------------------------------------------
\* AtomicCell: an AtomicPtr to a boxed value, null when empty.  The box of
\* value v is at address v.
\* ----------------------------------------------------------------------
Null == 0

\* AtomicCell::new(t).  live: the boxes allocated and not freed; nput: the
\* values boxed so far.  pc, new, prev, res, last: each thread's place in
\* replace / take, the pointer it swaps in, the one it got, its result, its
\* last call.  ret: how often each value has been returned
AtomicCellNew(some) ==
    [inner |-> IF some THEN 1 ELSE Null,
     live |-> IF some THEN {1} ELSE {},
     nput |-> IF some THEN 1 ELSE 0,
     pc |-> [t \in Threads |-> "idle"], new |-> [t \in Threads |-> Null],
     prev |-> [t \in Threads |-> Null], res |-> [t \in Threads |-> NoVal],
     last |-> [t \in Threads |-> "none"],
     ret |-> [v \in 1..MaxPuts |-> 0]]

\* replace(Some(v)) with a value not used before, or replace(None) / take():
\* Box::into_raw(Box::new(v)), or null
CellCall(t, some, asTake) ==
    /\ ac.pc[t] = "idle"
    /\ some => (ac.nput < MaxPuts /\ ~asTake)
    /\ ac' = [ac EXCEPT !.pc[t] = "swap",
                        !.new[t] = IF some THEN ac.nput + 1 ELSE Null,
                        !.nput = IF some THEN @ + 1 ELSE @,
                        !.live = IF some THEN @ \cup {ac.nput + 1} ELSE @,
                        !.last[t] = IF asTake THEN "take" ELSE "replace"]
    /\ UNCHANGED <<tc, bb, seqvars, convars, flagvars, chanvars>>

\* what self.inner.swap(new, AcqRel) leaves in the cell
SwapKeeps(c, t) == c.inner
SwapStores(c, t) == c.new[t]

\* let prev = self.inner.swap(new, Ordering::AcqRel)
CellSwap(t) ==
    /\ ac.pc[t] = "swap"
    /\ ac' = [ac EXCEPT !.prev[t] = ac.inner, !.inner = SwapStores(ac, t), !.pc[t] = "unbox"]
    /\ UNCHANGED <<tc, bb, seqvars, convars, flagvars, chanvars>>

\* None for null, else Box::from_raw(prev) and the value moved out of it; a
\* box that was freed already holds anything
CellUnbox(t) ==
    /\ ac.pc[t] = "unbox"
    /\ ac' = [ac EXCEPT !.res[t] = CASE ac.prev[t] = Null -> NoVal
                                     [] ac.prev[t] \in ac.live -> ac.prev[t]
                                     [] OTHER -> Garbage,
                        !.live = @ \ {ac.prev[t]},
                        !.pc[t] = "ret"]
    /\ UNCHANGED <<tc, bb, seqvars, convars, flagvars, chanvars>>

\* replace / take returns
CellReturn(t) ==
    /\ ac.pc[t] = "ret"
    /\ ac' = [ac EXCEPT !.pc[t] = "idle",
                        !.new[t] = Null, !.prev[t] = Null, !.res[t] = NoVal,
                        !.ret = IF ac.res[t] \in 1..MaxPuts
                                THEN [@ EXCEPT ![ac.res[t]] = @ + 1] ELSE @]
    /\ UNCHANGED <<tc, bb, seqvars, convars, flagvars, chanvars>>

CellStep ==
    \/ \E t \in Threads, some \in BOOLEAN, asTake \in BOOLEAN : CellCall(t, some, asTake)
    \/ \E t \in Threads : CellSwap(t)
    \/ \E t \in Threads : CellUnbox(t)
    \/ \E t \in Threads : CellReturn(t)

\* ----------------------------------------------------------------------
\* AtomicBitBox: len bits in a boxed slice of atomic words of BitSize bits.
\* ----------------------------------------------------------------------
\* crate::div_ceil
DivCeil(lhs, rhs) ==
    IF lhs % rhs > 0 /\ rhs > 0 THEN (lhs \div rhs) + 1 ELSE lhs \div rhs

\* bit i of the word w, and the word with bit i set / cleared
Bit(w, i) == (w \div (2 ^ i)) % 2
FetchOr(w, i) == IF Bit(w, i) = 1 THEN w ELSE w + 2 ^ i
FetchAnd(w, i) == IF Bit(w, i) = 1 THEN w - 2 ^ i ELSE w

\* a call that has not been made
NoBitCall == [op |-> "none", idx |-> 0, res |-> "none", was |-> 0, diff |-> {}, fresh |-> TRUE]

\* AtomicBitBox::try_new(len): div_ceil(len, BIT_SIZE) zeroed words.  debug:
\* whether the build checks arithmetic overflow; dirty: a bit has been set or
\* cleared; last: the latest call; crashed: a stray access faulted
BitBoxNew(len, debug) ==
    [len |-> len, bits |-> [w \in 0..(DivCeil(len, BitSize) - 1) |-> 0],
     debug |-> debug, dirty |-> FALSE, last |-> NoBitCall, crashed |-> FALSE]

\* self.bits.len()
BitsLen(B) == DivCeil(B.len, BitSize)

\* check_bounds(major, minor): "panic" when self.bits.len() - 1 overflows in a
\* build that checks it, else the wrapped difference is compared
CheckBounds(B, major, minor) ==
    IF BitsLen(B) = 0 /\ B.debug THEN "panic"
    ELSE LET last == (BitsLen(B) - 1) % (2 ^ UsizeBits)
         IN  IF major < last
             THEN (IF minor < BitSize THEN "true" ELSE "false")
             ELSE (IF minor < B.len % BitSize THEN "true" ELSE "false")

\* what an access through get_unchecked outside the slice can do
Stray == {"fault", "zero", "one"}

\* the bits of the box that differ between two states of its words
BitDiff(old, new) ==
    {j \in 0..(BitSize * MaxWords + BitSize) :
        /\ j \div BitSize \in DOMAIN old
        /\ Bit(old[j \div BitSize], j % BitSize) # Bit(new[j \div BitSize], j % BitSize)}

\* get / set / clear (op) of bit idx; s: the outcome of a stray access
BitCall(op, idx, s) ==
    LET major == idx \div BitSize
        minor == idx % BitSize
        ok == CheckBounds(bb, major, minor)
        inside == major \in DOMAIN bb.bits
        old == IF inside THEN bb.bits[major] ELSE 0
        new == CASE op = "set" -> FetchOr(old, minor)
                 [] op = "clear" -> FetchAnd(old, minor)
                 [] OTHER -> old
        bits2 == IF ok = "true" /\ inside THEN [bb.bits EXCEPT ![major] = new] ELSE bb.bits
        res == CASE ok = "panic" -> "panic"
                 [] ok = "false" -> "none"
                 [] inside -> IF Bit(old, minor) = 1 THEN "true" ELSE "false"
                 [] s = "fault" -> "fault"
                 [] s = "one" -> "stray true"
                 [] OTHER -> "stray false"
    IN  /\ ~bb.crashed
        /\ bb' = [bb EXCEPT !.bits = bits2,
                            !.dirty = @ \/ (op # "get" /\ ok = "true"),
                            !.crashed = res = "fault",
                            !.last = [op |-> op, idx |-> idx, res |-> res,
                                      was |-> Bit(old, minor),
                                      diff |-> BitDiff(bb.bits, bits2),
                                      fresh |-> ~bb.dirty]]
        /\ UNCHANGED <<tc, ac, seqvars, convars, flagvars, chanvars>>

\* any of the three calls, on every index up to one word past the longest box
BitStep ==
    \E op \in {"get", "set", "clear"}, idx \in 0..(BitSize * MaxWords + BitSize), s \in Stray :
        BitCall(op, idx, s)

\* the cells when no call is made on them
CellsUnused ==
    /\ tc = TakeCellNew(1)
    /\ ac = AtomicCellNew(FALSE)
    /\ bb = BitBoxNew(0, FALSE)

\* ------------------------------------------------------- specifications
\* the parts a specification does not use stay as constructed
FlagsUnused == FlagInitAt([f \in Flags |-> "mpsc"])

\* calls one after the other on the two queues sa and sm
SeqInit == (\E i0 \in IdxInit : SeqInitAt(i0)) /\ ConInitAt(0) /\ FlagsUnused /\ ChanUnused /\ CellsUnused
SeqSpec == SeqInit /\ [][SeqStep]_vars

\* threads sharing the queue cq
Init == ConInitAt(0) /\ SeqInitAt(0) /\ FlagsUnused /\ ChanUnused /\ CellsUnused
Next == ConStep
Spec == Init /\ [][Next]_vars

\* the same, with every thread that has a call in progress scheduled again
FairSpec == Spec /\ \A t \in Threads : WF_vars(Running(t))

\* threads waiting on flags of either kind while the Flag handles are cloned,
\* marked and dropped
FlagInit ==
    (\E k \in [Flags -> Kinds] : FlagInitAt(k)) /\ SeqInitAt(0) /\ ConInitAt(0) /\ ChanUnused /\ CellsUnused
FlagSpec == FlagInit /\ [][FlagStep]_vars

\* the same, with every waiting thread scheduled again
FlagFairSpec == FlagSpec /\ \A t \in Threads : WF_vars(Waiting(t))

\* threads waiting on a flag of either kind whose handles are cloned, marked,
\* dropped and dropped silently
SilentInit ==
    /\ \E k \in SilentKinds :
           FlagInitAt([f \in Flags |-> IF f \in SilentFlags THEN k ELSE "mpsc"])
    /\ SeqInitAt(0) /\ ConInitAt(0) /\ ChanUnused /\ CellsUnused
SilentSpec == SilentInit /\ [][SilentStep]_vars

\* threads receiving from one notifier while its Notify handles notify, are
\* cloned and dropped and Listeners come and go
NotifyInit == NotifyInitAt /\ SeqInitAt(0) /\ ConInitAt(0) /\ ChanUnused /\ CellsUnused
NotifySpec == NotifyInit /\ [][NotifyStep]_vars

\* the same, with every receiving thread scheduled again
NotifyFairSpec == NotifySpec /\ \A t \in Threads : WF_vars(Receiving(t))

\* tasks polling their AsyncSubscribe of one async mpmc flag while its
\* handles are cloned, marked and dropped
AsyncInit ==
    /\ fl = [f \in Flags |-> NewFlag(IF f \in SilentFlags THEN "mpmc" ELSE "mpsc")]
    /\ wt = [t \in Threads |-> IdleTask]
    /\ token = [t \in Threads |-> FALSE] /\ fcrashed = FALSE
    /\ SeqInitAt(0) /\ ConInitAt(0) /\ ChanUnused /\ CellsUnused
AsyncSpec == AsyncInit /\ [][AsyncStep]_vars

\* the same, with every polling task scheduled again
AsyncFairSpec == AsyncSpec /\ \A t \in Threads : WF_vars(Polling(t))

\* tasks polling their AsyncListener of one async notifier while its
\* handles notify, are cloned and dropped
ListenInit ==
    /\ fl = [f \in Flags |-> IF f = Notifier THEN NewNotify ELSE NewFlag("mpsc")]
    /\ wt = [t \in Threads |-> ListenTask]
    /\ token = [t \in Threads |-> FALSE] /\ fcrashed = FALSE
    /\ SeqInitAt(0) /\ ConInitAt(0) /\ ChanUnused /\ CellsUnused
ListenSpec == ListenInit /\ [][ListenStep]_vars

\* one once channel, its Sender and its Receiver on two threads
ChanInit == ChanInitAt /\ SeqInitAt(0) /\ ConInitAt(0) /\ CellsUnused
ChanSpec == ChanInit /\ [][ChanStep]_vars

\* the groups the cell specifications leave alone
OthersUnused == SeqInitAt(0) /\ ConInitAt(0) /\ FlagsUnused /\ ChanUnused

\* threads racing try_take (and try_take_mut between races) on one TakeCell
TakeInit ==
    /\ \E v \in Values : tc = TakeCellNew(v)
    /\ ac = AtomicCellNew(FALSE) /\ bb = BitBoxNew(0, FALSE)
    /\ OthersUnused
TakeSpec == TakeInit /\ [][TakeStep]_vars

\* threads calling replace and take on one AtomicCell
CellInit ==
    /\ \E some \in BOOLEAN : ac = AtomicCellNew(some)
    /\ tc = TakeCellNew(1) /\ bb = BitBoxNew(0, FALSE)
    /\ OthersUnused
CellSpec == CellInit /\ [][CellStep]_vars

\* get, set and clear on an AtomicBitBox of any length up to MaxWords words
BitInit ==
    /\ \E len \in 0..(BitSize * MaxWords), debug \in BOOLEAN : bb = BitBoxNew(len, debug)
    /\ tc = TakeCellNew(1) /\ ac = AtomicCellNew(FALSE)
    /\ OthersUnused
BitSpec == BitInit /\ [][BitStep]_vars

\* ------------------------------------------------- properties: FillQueue
\* the shared queue is at rest: no call in progress, no ChopIter alive, and
\* the head is null (whatever was pushed has been chopped)
AtRest ==
    /\ ~crashed /\ cq.block = EMPTY
    /\ \A t \in Threads : th[t].op = "idle" /\ ~th[t].own

\* C1: for any interleaving of pushes and chops on one queue, once every call
\* has finished and a final chop has emptied the queue, every value whose
\* push returned was yielded by the ChopIters exactly once, and nothing else
\* was yielded.
C1_NoLossNoDup ==
    AtRest => /\ \A v \in Values : taken[v] = IF v \in pushed THEN 1 ELSE 0
              /\ taken[Garbage] = 0

\* C2: in single-threaded use of push and chop, a chop that has been run to
\* its end (None, or the chop call itself failing) has yielded exactly the
\* values pushed since the previous chop, last pushed first.
C2_LifoPerChop == doneA => gotA = expA

\* C3: with every thread that has a call in progress scheduled again and
\* again, every try_push call that was entered returns.
C3_PushReturns == \A t \in Threads : (th[t].op = "push") ~> (th[t].op # "push")

\* C4: a try_push or try_push_mut that returns Err(AllocError) leaves the
\* queue (head, blocks, nodes) exactly as it was before the call.
C4_FailedPushLeavesQueue ==
    [][(npush' = npush + 1) =>
          /\ (~haltA /\ obsA'.res = "err") => sa' = sa
          /\ (~haltM /\ obsM'.res = "err") => sm' = sm]_vars

\* C5: after any single-threaded call sequence, the call made last through
\* the push_mut / chop_mut variants (or a mix of both variants) has the result
\* the same call has in the run made through the atomic push / chop.
C5_MutMatchesAtomic == obsA = obsM

\* the outcome of a ChopIter drop: it returned, every block of the iterator
\* is freed, every value written to them was moved out exactly once, and only
\* pushed values were dropped
DropClean(q, i, o) ==
    (o.op = "drop" /\ o.res # "noiter") =>
        /\ o.res = "ok"
        /\ \A b \in i.chain :
              /\ q.heap[b].st = "freed"
              /\ \A s \in Slots :
                    q.heap[b].nodes[s].init = FLAG_TRUE => q.heap[b].nodes[s].rd = 1
        /\ \A k \in 1..Len(o.out) : o.out[k] \in Values

\* C6: dropping a ChopIter that has yielded some (possibly none) of its
\* elements returns, drops every remaining value exactly once, frees every
\* remaining block, and drops no value a second time.
C6_DropFreesRemaining == DropClean(sa, ia, obsA) /\ DropClean(sm, im, obsM)

\* C7: on a queue nothing was pushed to, is_empty() returns true and the
\* iterator of chop() yields nothing.
C7_FreshQueueEmpty ==
    (npush = 0) =>
        /\ obsA.op = "is_empty" => obsA.res = "true"
        /\ obsA.op = "chop" => obsA.res = "ok"
        /\ obsA.op = "next" => obsA.res = "none"

\* ----------------------------------------------------- properties: flags
\* the thread is inside wait / wait_timeout
InWait(t) == wt[t].pc \in {"push", "store", "unref", "park", "panic"}

\* C8: once every Flag handle of an mpmc flag has been dropped or marked,
\* every wait call on that flag that is in progress (whether it has
\* registered its Lock yet or not) returns, as long as the program keeps
\* running and every waiting thread is scheduled.
C8_WaitReturnsAfterCompletion ==
    \A t \in Threads :
        (/\ InWait(t) /\ ~wt[t].timed /\ ~fcrashed
         /\ fl[wt[t].f].kind = "mpmc" /\ fl[wt[t].f].handles = 0)
            ~> (~InWait(t) \/ fcrashed)

\* C9: a wait call (mpmc or mpsc) that found a Flag handle alive has not
\* returned while a Flag handle of its flag is still alive, whatever its
\* thread did before.
C9_WaitBlocksUntilMarked ==
    \A t \in Threads :
        (wt[t].pc = "ret" /\ wt[t].found /\ ~wt[t].timed) => fl[wt[t].f].handles = 0

\* C10: while a Flag handle of a flag is alive the flag's destructor has not
\* run (no Lock registered with it has been dropped, so nobody has been
\* woken by it); and once the last handle is gone and the destructor has
\* run, it has ended normally and every thread parked on that flag has its
\* wake-up.
C10_CompletesOnLastHandle ==
    \A f \in Flags :
        /\ fl[f].handles > 0 => fl[f].dropres = "none"
        /\ fl[f].dropres # "none" =>
              /\ fl[f].dropres = "ok"
              /\ \A t \in Threads : (wt[t].pc = "park" /\ wt[t].f = f) => token[t]

\* C11: a wait / wait_timeout call made when no Flag handle of its flag is
\* alive goes straight to its return: it is never found registering a Lock,
\* releasing an upgraded reference or parked.
C11_WaitOnDeadFlagReturns == \A t \in Threads : InWait(t) => wt[t].found

\* C12: a flag whose only remaining Flag handle was given to silent_drop
\* has unparked no thread, whatever wait / wait_timeout calls ran meanwhile.
C12_SilentDropWakesNobody == \A f \in Flags : fl[f].silenced => fl[f].woke = {}

\* ---------------------------------------------------- properties: Notify
\* C13: a notify_all call returns normally and unparks exactly the threads
\* whose recv had registered before the call and had not been the subject of
\* an earlier notify_all.
C13_NotifyWakesRegistered ==
    LET l == fl[Notifier].last
    IN  l.res # "none" => (l.res = "ok" /\ l.woke = l.reg)

\* C14: a recv that was registered and parked when a notify_all call was
\* made returns, in every round.
C14_NotifiedRecvReturns ==
    \A t \in Threads : (wt[t].pc = "rpark" /\ wt[t].noted) ~> (wt[t].pc # "rpark")

\* C15: once no Notify handle is alive, every thread parked in recv /
\* try_recv is woken and its call returns.
C15_NotifyDropsLoudly ==
    \A t \in Threads :
        (wt[t].pc = "rpark" /\ fl[Notifier].handles = 0 /\ ~fcrashed)
            ~> (wt[t].pc # "rpark" \/ fcrashed)

\* C16: Notify::listeners() (while a Notify handle exists to call it on) and
\* Listener::listeners() (while a Listener exists) both return the number of
\* Listener handles alive.
C16_ListenersCount ==
    /\ fl[Notifier].handles > 0 => ArcWeakCount(fl[Notifier]) = fl[Notifier].listeners
    /\ fl[Notifier].listeners > 0 => WeakWeakCount(fl[Notifier]) = fl[Notifier].listeners

C18_AsyncSilentDropNotMarked ==
    \A f \in Flags :
        (fl[f].kind = "async" /\ fl[f].silenced /\ fl[f].handles = 0 /\ fl[f].pend = 0)
            => ~AsyncIsMarked(fl[f])

\* ------------------------------------------------ properties: once channel
\* C19: Receiver::wait returns Some(v) only after the Sender has sent v, and
\* None only after the Sender was dropped without sending; it does not return
\* while the Sender is alive and has not sent, and not None after a send.
C19_WaitReturnsWhatWasSent ==
    ch.rx = "done" =>
        CASE ch.at = "dropped" -> ch.got = NoVal
          [] ch.at = "ret" /\ ch.sres = "ok" -> ch.got = ch.sv
          [] OTHER -> FALSE

\* C20: try_send(t) returns Ok(()) having stored t when the Receiver existed
\* at the call, and Err(t) with the same t, nothing stored, when the Receiver
\* had been dropped; either way the Sender's Flag handle is gone on return.
C20_TrySendResult ==
    ch.tx = "ret" =>
        /\ ch.alive => (ch.sres = "ok" /\ ch.stored = ch.sv)
        /\ ~ch.alive => (ch.sres = "err" /\ ch.back = ch.sv /\ ch.stored = NoVal)
        /\ fl[ChanFlag].handles = 0

\* try_send on a channel whose Receiver was dropped has returned Err(t)
C20_Witness ==
    ch.tx = "ret" /\ ch.rx = "dropped" /\ ch.sres = "err" /\ ch.back \in Values

\* ------------------------------------------------ properties: TakeCell
\* C21: of all try_take / try_take_mut calls on a cell made with new(v) at
\* most one returns Some, it returns Some(v), and once the calls made have
\* returned exactly one has; after any call has returned is_taken() is true.
C21_TakenAtMostOnce ==
    /\ tc.nsome <= 1 /\ tc.nbad = 0
    /\ tc.nsome + tc.nnone > 0 => IsTaken(tc)
    /\ ((\A t \in Threads : tc.pc[t] = "idle") /\ tc.nsome + tc.nnone > 0) => tc.nsome = 1

\* every thread has called and returned: one call got Some(v), another None
C21_Witness ==
    /\ \A t \in Threads : tc.pc[t] = "idle" /\ tc.calls[t] > 0
    /\ tc.nsome = 1 /\ tc.nnone > 0 /\ IsTaken(tc)

\* ---------------------------------------------- properties: AtomicCell
\* C22: every value put into the cell is in exactly one place: still in the
\* cell, held by the call that swapped it out, or returned once; no call
\* returns a value that was never put or was returned before; when no call is
\* in progress and every thread's last call was take, the cell is empty.
C22_SwapNeverLosesOrDuplicates ==
    /\ \A v \in 1..MaxPuts :
          LET held == Cardinality({t \in Threads :
                          \/ ac.pc[t] = "swap" /\ ac.new[t] = v
                          \/ ac.pc[t] = "unbox" /\ ac.prev[t] = v
                          \/ ac.pc[t] = "ret" /\ ac.res[t] = v})
              inCell == IF ac.inner = v THEN 1 ELSE 0
          IN  held + inCell + ac.ret[v] = IF v <= ac.nput THEN 1 ELSE 0
    /\ \A t \in Threads : ac.res[t] # Garbage
    /\ (\A t \in Threads : ac.pc[t] = "idle" /\ ac.last[t] = "take") => ac.inner = Null

\* a value was replaced by another and both have been returned, the cell
\* left empty by a final take
C22_Witness ==
    /\ \A t \in Threads : ac.pc[t] = "idle" /\ ac.last[t] = "take"
    /\ ac.nput >= 2 /\ \A v \in 1..ac.nput : ac.ret[v] = 1

\* -------------------------------------------- properties: AtomicBitBox
\* C23: get, set and clear of an index >= len return None and change no bit.
C23_OutOfBoundsIsNone ==
    (bb.last.op # "none" /\ bb.last.idx >= bb.len)
        => (bb.last.res = "none" /\ bb.last.diff = {})

\* C24: on a box made with new(len), len >= 1, get(idx) of an idx < len
\* returns Some(false) as long as no bit has been set.
C24_NewBitsAreFalse ==
    (bb.last.op = "get" /\ bb.last.fresh /\ bb.len >= 1 /\ bb.last.idx < bb.len)
        => bb.last.res = "false"

\* C25: set / clear of an idx < len returns Some(the bit's previous value),
\* leaves the bit true / false, and changes no other bit.
C25_SetClearFrame ==
    (bb.last.op \in {"set", "clear"} /\ bb.last.idx < bb.len)
        => /\ bb.last.res = (IF bb.last.was = 1 THEN "true" ELSE "false")
           /\ Bit(bb.bits[bb.last.idx \div BitSize], bb.last.idx % BitSize)
                  = (IF bb.last.op = "set" THEN 1 ELSE 0)
           /\ bb.last.diff \subseteq {bb.last.idx}

\* the values thread t's ChopIter has still to yield
IterHolds(t) ==
    {ChainValues(cq, th[t].it.ptr, th[t].it.hi, MaxBlocks)[i] :
        i \in 1..Len(ChainValues(cq, th[t].it.ptr, th[t].it.hi, MaxBlocks))}

\* C26: when a chop performs its swap, every value whose push has completed
\* was yielded already, or is held by an iterator of an earlier chop, or is
\* held by the iterator this chop returns; and no value is yielded twice.
C26_ChopTakesCompletedPushes ==
    [][(\E t \in Threads : ChopCall(t)) =>
          \A v \in pushed :
              /\ taken'[v] <= 1
              /\ taken'[v] = 1 \/ \E t \in Threads : v \in IterHolds(t)']_vars

\* C27: between calls (no push in progress) the blocks reachable from the
\* queue head along prev hold exactly the values pushed since the last chop,
\* most recent first.
C27_HeadChainHoldsPending == ~haltA => HeadValues(sa) = Reverse(pendA)

\* C28: once every call has returned, every iterator has run to its end and
\* the head is empty (so that a queue drop has nothing left to free), every
\* block a push allocated has been deallocated; and the chains of blocks two
\* ChopIters own are disjoint.
C28_BlocksFreedOnceDisjoint ==
    /\ AtRest => \A b \in Blocks : cq.heap[b].st # "live"
    /\ \A t1, t2 \in Threads :
           t1 # t2 => ChainOf(cq, th[t1].it.ptr, MaxBlocks)
                          \cap ChainOf(cq, th[t2].it.ptr, MaxBlocks) = {}

\* C29: every value a ChopIter::next call (directly or through the
\* iterator's drop) moves out of a slot is one a push wrote there: it never
\* yields the content of a slot no push has written and published.
C29_YieldsOnlyPublished ==
    \A o \in {obsA, obsM} :
        o.op \in {"next", "drop"} => \A i \in 1..Len(o.out) : o.out[i] \in 1..npush

\* C30: a ChopIter::next call made while no other call is in progress
\* returns (Some or None): it does not wait on an init flag nothing will set.
C30_NextReturns ==
    \A o \in {obsA, obsM} : o.op = "next" => o.res \in {"some", "none", "noiter"}

\* C31: every chop completes without failure and hands back an iterator,
\* whatever the head holds at its swap: empty, a block, or the marker of a
\* push that is allocating or initialising a block.
C31_ChopAlwaysCompletes ==
    [][(\E t \in Threads : ChopCall(t)) => Chop(cq).res = "ok"]_vars

\* C32: dropping a queue on which no call is in progress returns, drops the
\* values pushed since the last chop exactly once each (as that chop's
\* iterator would: last pushed first), and leaves no block allocated.
C32_QueueDropIsFinalChop ==
    obsA.op = "qdrop" =>
        /\ obsA.res = "ok"
        /\ obsA.out = Reverse(pendA)
        /\ \A b \in Blocks : sa.heap[b].st # "live"

\* C33: the range a ChopIter reads its block's slots from never reaches the
\* end of the node array: its upper end is at most block_size, so every
\* index it yields is below block_size.
C33_IterRangeInsideBlock ==
    \A i \in {ia, im} : (i.live /\ i.it.ptr \in Blocks) => i.it.hi <= BlockSize

\* C34: whenever no push is in progress the head is EMPTY or points to a
\* fully initialised block, never one of the markers; and at most one push
\* at a time is between winning the EMPTY -> ALLOCATING exchange and the end
\* of allocate_new_block.
C34_MarkersAreTransient ==
    /\ (\A t \in Threads : th[t].op # "push") =>
           \/ cq.block = EMPTY
           \/ cq.block \in Blocks /\ cq.heap[cq.block].init = FLAG_TRUE
    /\ Cardinality({t \in Threads : th[t].op = "push"
                        /\ th[t].pl.pc \in {"alloc", "lock", "init", "fail1"}}) <= 1

\* C35: once the shared part of an mpmc flag has been destroyed (by the last
\* drop / mark or by a silent drop), the destruction went through and every
\* Lock a waiter registered in its queue was taken out and released exactly
\* once.
C35_LocksReleasedOnce ==
    \A f \in Flags :
        (fl[f].kind = "mpmc" /\ fl[f].strong = 0) =>
            /\ fl[f].dropres \in {"ok", "silent"}
            /\ \A b \in Blocks, s \in Slots :
                   fl[f].q.heap[b].nodes[s].init = FLAG_TRUE
                       => fl[f].q.heap[b].nodes[s].rd = 1

\* C36: a poll of an AsyncSubscribe returns; it returns Ready exactly when no
\* AsyncFlag handle was alive when it looked, and then the subscriber has let
\* its Weak go (is_terminated); otherwise it registers and returns Pending.
C36_PollReadyIffNoHandle ==
    \A t \in Threads :
        /\ wt[t].pc # "panic"
        /\ wt[t].last \in {"none", "polling", "ready", "pending"}
        /\ wt[t].last = "ready" => ~wt[t].found /\ ~wt[t].inner
        /\ wt[t].last = "pending" => wt[t].found

\* C37: with every polling task scheduled again, a task whose poll returned
\* Pending is woken once no AsyncFlag handle is left.
C37_PendingTasksAreWoken ==
    \A t \in Threads :
        (wt[t].pc = "idle" /\ wt[t].last = "pending"
            /\ \A f \in SilentFlags : fl[f].handles = 0) ~> token[t]

\* C38: every notify_all call goes through and marks the flags of the
\* registrations it found; every poll_next returns Pending, Some(()) or None,
\* with at most one registration pending; and it returns None only when no
\* AsyncNotify handle is left and the listener has no pending registration.
C38_ListenerStream ==
    /\ fl[Notifier].last.res \in {"none", "ok"}
    /\ fl[Notifier].last.reg \subseteq fl[Notifier].last.woke
    /\ \A t \in Threads :
           /\ wt[t].pc # "panic"
           /\ wt[t].last \in {"none", "polling", "pending", "some", "end"}
           /\ wt[t].last = "end" =>
                  fl[Notifier].handles = 0 /\ ~wt[t].sub /\ ~wt[t].inner

====
